---- MODULE Spec2Model ----
(***************************************************************************)
(* Model of the two map assemblers of MapGenerator:                        *)
(*   assemble-original-map.py  18x18 grid, column by column, <id>.jpg      *)
(*   assemble-v1-map.py        3x3 grid, row by row, <row>-<col>.png,      *)
(*                             then a Lanczos upscale to 6144x6144         *)
(* One run of one script is one behaviour: `variant` says which script.    *)
(* Images are records [w, h, base, pastes]; a paste is a rectangle, so the *)
(* pixel claims are settled by rectangle arithmetic at full size.          *)
(***************************************************************************)
EXTENDS Integers, Sequences, FiniteSets, TLC

VARIABLES
  variant,          \* "original" | "v1": the script that runs
  dir_exists,       \* os.path.exists(TILE_DIR)
  disk,             \* the tile files that are not a well-formed tile: name -> Status
  pc,               \* "main" | "loop" | "assembled" | "upscaled" | "done" | "exited" | "crashed"
  exit_code,        \* -1 while running, then the process exit code
  failure,          \* "none" | "no_tile_dir" | "decode" | "write": what ended the run
  output_image,     \* the canvas
  tile_num,         \* original: the sequential tile identifier
  tiles_processed,  \* original: counter
  tiles_loaded,     \* v1: counter
  tiles_missing,    \* both: counter
  col, row,         \* the loop variables: the next cell the loops yield
  cells,            \* history: one record per completed cell, in visiting order
  output_file,      \* the images written to OUTPUT_FILE, in order
  canvas_writes     \* number of paste calls on the canvas so far

vars == <<variant, dir_exists, disk, pc, exit_code, failure, output_image, tile_num,
          tiles_processed, tiles_loaded, tiles_missing, col, row, cells, output_file,
          canvas_writes>>

----------------------------------------------------------------------------
(* Bounds of the model *)

\* at most this many tile files of a run are absent, of another size, or undecodable
MaxFaults == 2
\* the side of a tile file whose decoded size is not TILE_SIZE
ODD_SIZE == 512

----------------------------------------------------------------------------
(* Configuration: assemble-original-map.py *)

TILE_SIZE == 1024
GRID_SIZE == 18
OUTPUT_SIZE == TILE_SIZE * GRID_SIZE
START_TILE == 75879
END_TILE == 76202
MISSING_TILES == {76009, 76027}

(* Configuration: assemble-v1-map.py *)

V1_TILE_SIZE == 1024
GRID_ROWS == 3
GRID_COLS == 3
ASSEMBLED_SIZE == V1_TILE_SIZE * GRID_COLS
GAME_SIZE == 6144

----------------------------------------------------------------------------
(* The tile directory *)

Status == {"absent", "wrongsize", "corrupt"}

\* The tiles of the 18x18 grid whose file may be faulty: the first and last tile,
\* both sides of the first column break, a declared-missing tile and its successor.
PROBE_TILES ==
  {START_TILE, START_TILE + GRID_SIZE - 1, START_TILE + GRID_SIZE, 76009, 76010, END_TILE}

V1_NAMES == {<<r, c>> : r \in 1..GRID_ROWS, c \in 1..GRID_COLS}

FaultyNames(v) == IF v = "original" THEN PROBE_TILES ELSE V1_NAMES

Disks(v) ==
  UNION {[S -> Status] : S \in {T \in SUBSET FaultyNames(v) : Cardinality(T) <= MaxFaults}}

FileStatus(name) == IF name \in DOMAIN disk THEN disk[name] ELSE "ok"

\* os.path.exists(os.path.join(TILE_DIR, name))
PathExists(name) == dir_exists /\ FileStatus(name) # "absent"

----------------------------------------------------------------------------
(* PIL images *)

NoImage == [w |-> 0, h |-> 0, base |-> [kind |-> "none"], pastes |-> <<>>]

\* Image.new('RGB', (w, h), color=color)
ImageNew(w, h, color) ==
  [w |-> w, h |-> h, base |-> [kind |-> "solid", color |-> color], pastes |-> <<>>]

\* Image.open(path) of a file that decodes
ImageOpen(name) ==
  LET s == IF FileStatus(name) = "wrongsize" THEN ODD_SIZE ELSE TILE_SIZE
  IN  [w |-> s, h |-> s, base |-> [kind |-> "file", name |-> name], pastes |-> <<>>]

\* image.resize((w, h), Image.LANCZOS): a new image, resampled from img
ImageResize(img, w, h) ==
  [w |-> w, h |-> h, base |-> [kind |-> "lanczos", of |-> img], pastes |-> <<>>]

\* image.paste(tile, (x, y)): in place, opaque, the tile's own size
ImagePaste(img, tile, x, y) ==
  [img EXCEPT !.pastes = Append(@, [x |-> x, y |-> y, tile |-> tile])]

create_blank_tile == ImageNew(TILE_SIZE, TILE_SIZE, "black")

IsBlack(img) == img.base.kind = "solid" /\ img.base.color = "black" /\ img.pastes = <<>>

----------------------------------------------------------------------------
(* assemble-original-map.py *)

\* seeded fault: x_offset computed from row
Orig_Offsets_RowForX(c, r) == [x |-> r * TILE_SIZE, y |-> r * TILE_SIZE]

\* x_offset, y_offset of the cell at loop values (col, row), both 0-based
Orig_Offsets(c, r) == [x |-> c * TILE_SIZE, y |-> r * TILE_SIZE]

\* seeded fault: the existence check comes before the missing-set check
TileKnownMissing_AfterExists(n) == n \in MISSING_TILES /\ ~PathExists(n)

\* if tile_num in MISSING_TILES
TileKnownMissing(n) == n \in MISSING_TILES

\* seeded fault: the else branch forgets tiles_missing += 1
NotFoundResult_Uncounted ==
  [raised |-> FALSE, tile |-> create_blank_tile, fs |-> {"exists"}, msg |-> "not_found",
   processed |-> 0, missing |-> 0]

\* the else branch: warning, placeholder, tiles_missing += 1
NotFoundResult ==
  [raised |-> FALSE, tile |-> create_blank_tile, fs |-> {"exists"}, msg |-> "not_found",
   processed |-> 0, missing |-> 1]

\* seeded fault: a resized tile is counted as missing
ResizedResult_AsMissing(tile) ==
  [raised |-> FALSE, tile |-> ImageResize(tile, TILE_SIZE, TILE_SIZE),
   fs |-> {"exists", "open"}, msg |-> "resized", processed |-> 0, missing |-> 1]

\* the size check's branch: warning, resize, then tiles_processed += 1
ResizedResult(tile) ==
  [raised |-> FALSE, tile |-> ImageResize(tile, TILE_SIZE, TILE_SIZE),
   fs |-> {"exists", "open"}, msg |-> "resized", processed |-> 1, missing |-> 0]

\* "Load tile or use placeholder": the if / elif / else on tile_num.
\* raised: Image.open (or the decode it defers) threw; nothing catches it.
LoadTile(n) ==
  IF TileKnownMissing(n)
  THEN [raised |-> FALSE, tile |-> create_blank_tile, fs |-> {}, msg |-> "known_missing",
        processed |-> 0, missing |-> 1]
  ELSE IF PathExists(n)
  THEN IF FileStatus(n) = "corrupt"
       THEN [raised |-> TRUE, tile |-> NoImage, fs |-> {"exists", "open"}, msg |-> "traceback",
             processed |-> 0, missing |-> 0]
       ELSE LET tile == ImageOpen(n)
            IN  IF <<tile.w, tile.h>> # <<TILE_SIZE, TILE_SIZE>>
                THEN ResizedResult(tile)
                ELSE [raised |-> FALSE, tile |-> tile, fs |-> {"exists", "open"},
                      msg |-> "loaded", processed |-> 1, missing |-> 0]
  ELSE NotFoundResult

\* seeded fault: the increment sits in the branches that read the disk
NextTileNum_NotAfterMissing(n) == IF n \in MISSING_TILES THEN n ELSE n + 1

\* tile_num += 1
NextTileNum(n) == n + 1

\* seeded fault: the inner range stops one row short
Orig_Advance_ShortInner(c, r) == IF r + 1 < GRID_SIZE - 1 THEN <<c, r + 1>> ELSE <<c + 1, 0>>

\* for col in range(GRID_SIZE): for row in range(GRID_SIZE): the cell after (c, r)
Orig_Advance(c, r) == IF r + 1 < GRID_SIZE THEN <<c, r + 1>> ELSE <<c + 1, 0>>

\* the outer range is exhausted
Orig_LoopDone(c) == c >= GRID_SIZE

\* seeded fault: __main__ calls assemble_map without the directory check
Orig_Main_NoDirCheck ==
  /\ variant = "original" /\ pc = "main"
  /\ pc' = "loop"
  /\ output_image' = ImageNew(OUTPUT_SIZE, OUTPUT_SIZE, "black")
  /\ tile_num' = START_TILE
  /\ tiles_processed' = 0
  /\ tiles_missing' = 0
  /\ col' = 0 /\ row' = 0
  /\ UNCHANGED <<exit_code, failure>>
  /\ UNCHANGED <<variant, dir_exists, disk, tiles_loaded, cells, output_file, canvas_writes>>

\* __main__: the directory check, the listing, and assemble_map up to the loops
Orig_Main ==
  /\ variant = "original" /\ pc = "main"
  /\ IF ~dir_exists
     THEN /\ pc' = "exited" /\ exit_code' = 1 /\ failure' = "no_tile_dir"
          /\ UNCHANGED <<output_image, tile_num, tiles_processed, tiles_missing, col, row>>
     ELSE /\ pc' = "loop"
          /\ output_image' = ImageNew(OUTPUT_SIZE, OUTPUT_SIZE, "black")
          /\ tile_num' = START_TILE
          /\ tiles_processed' = 0
          /\ tiles_missing' = 0
          /\ col' = 0 /\ row' = 0
          /\ UNCHANGED <<exit_code, failure>>
  /\ UNCHANGED <<variant, dir_exists, disk, tiles_loaded, cells, output_file, canvas_writes>>

\* one iteration of the inner loop body
Orig_Cell ==
  /\ variant = "original" /\ pc = "loop" /\ ~Orig_LoopDone(col)
  /\ LET off == Orig_Offsets(col, row)
         r   == LoadTile(tile_num)
         nxt == Orig_Advance(col, row)
     IN  IF r.raised
         THEN /\ pc' = "crashed" /\ exit_code' = 1 /\ failure' = "decode"
              /\ UNCHANGED <<output_image, tile_num, tiles_processed, tiles_missing,
                             col, row, cells, canvas_writes>>
         ELSE /\ output_image' = ImagePaste(output_image, r.tile, off.x, off.y)
              /\ canvas_writes' = canvas_writes + 1
              /\ tiles_processed' = tiles_processed + r.processed
              /\ tiles_missing' = tiles_missing + r.missing
              /\ cells' = Append(cells, [col |-> col, row |-> row, name |-> tile_num,
                                         x |-> off.x, y |-> off.y, fs |-> r.fs,
                                         msg |-> r.msg, loaded |-> r.processed,
                                         missing |-> r.missing, pasted |-> TRUE])
              /\ tile_num' = NextTileNum(tile_num)
              /\ col' = nxt[1] /\ row' = nxt[2]
              /\ UNCHANGED <<pc, exit_code, failure>>
  /\ UNCHANGED <<variant, dir_exists, disk, tiles_loaded, output_file>>

\* both loops are exhausted: the summary is printed
Orig_LoopEnd ==
  /\ variant = "original" /\ pc = "loop" /\ Orig_LoopDone(col)
  /\ pc' = "assembled"
  /\ UNCHANGED <<variant, dir_exists, disk, exit_code, failure, output_image, tile_num,
                 tiles_processed, tiles_loaded, tiles_missing, col, row, cells,
                 output_file, canvas_writes>>

\* the state in which output_image.save is called
Orig_ReadyToSave == pc = "assembled"

\* output_image.save(OUTPUT_FILE, "PNG", optimize=False), then the size report
Orig_Save ==
  /\ variant = "original" /\ Orig_ReadyToSave
  /\ \E written \in BOOLEAN :
       IF written
       THEN /\ output_file' = Append(output_file, output_image)
            /\ pc' = "done" /\ exit_code' = 0 /\ UNCHANGED failure
       ELSE /\ pc' = "crashed" /\ exit_code' = 1 /\ failure' = "write"
            /\ UNCHANGED output_file
  /\ UNCHANGED <<variant, dir_exists, disk, output_image, tile_num, tiles_processed,
                 tiles_loaded, tiles_missing, col, row, cells, canvas_writes>>

----------------------------------------------------------------------------
(* assemble-v1-map.py *)

\* seeded fault: the 1-based loop values are used as they are
V1_Offsets_OneBased(r, c) == [x |-> c * V1_TILE_SIZE, y |-> r * V1_TILE_SIZE]

\* x_offset, y_offset of the cell at loop values (row, col), both 1-based
V1_Offsets(r, c) == [x |-> (c - 1) * V1_TILE_SIZE, y |-> (r - 1) * V1_TILE_SIZE]

\* the if / else on os.path.exists(tile_path); found: the paste branch was taken
V1_LoadTile(name) ==
  IF PathExists(name)
  THEN IF FileStatus(name) = "corrupt"
       THEN [raised |-> TRUE, found |-> FALSE, tile |-> NoImage, fs |-> {"exists", "open"},
             msg |-> "traceback", loaded |-> 0, missing |-> 0]
       ELSE LET tile == ImageOpen(name)
            IN  IF <<tile.w, tile.h>> # <<V1_TILE_SIZE, V1_TILE_SIZE>>
                THEN [raised |-> FALSE, found |-> TRUE,
                      tile |-> ImageResize(tile, V1_TILE_SIZE, V1_TILE_SIZE),
                      fs |-> {"exists", "open"}, msg |-> "resized",
                      loaded |-> 1, missing |-> 0]
                ELSE [raised |-> FALSE, found |-> TRUE, tile |-> tile,
                      fs |-> {"exists", "open"}, msg |-> "loaded",
                      loaded |-> 1, missing |-> 0]
  ELSE [raised |-> FALSE, found |-> FALSE, tile |-> NoImage, fs |-> {"exists"},
        msg |-> "not_found", loaded |-> 0, missing |-> 1]

\* for row in range(1, GRID_ROWS + 1): for col in range(1, GRID_COLS + 1)
V1_Advance(r, c) == IF c + 1 < GRID_COLS + 1 THEN <<r, c + 1>> ELSE <<r + 1, 1>>

V1_LoopDone(r) == r >= GRID_ROWS + 1

V1_Main ==
  /\ variant = "v1" /\ pc = "main"
  /\ IF ~dir_exists
     THEN /\ pc' = "exited" /\ exit_code' = 1 /\ failure' = "no_tile_dir"
          /\ UNCHANGED <<output_image, tiles_loaded, tiles_missing, col, row>>
     ELSE /\ pc' = "loop"
          /\ output_image' = ImageNew(ASSEMBLED_SIZE, ASSEMBLED_SIZE, "black")
          /\ tiles_loaded' = 0
          /\ tiles_missing' = 0
          /\ row' = 1 /\ col' = 1
          /\ UNCHANGED <<exit_code, failure>>
  /\ UNCHANGED <<variant, dir_exists, disk, tile_num, tiles_processed, cells, output_file,
                 canvas_writes>>

V1_Cell ==
  /\ variant = "v1" /\ pc = "loop" /\ ~V1_LoopDone(row)
  /\ LET off == V1_Offsets(row, col)
         r   == V1_LoadTile(<<row, col>>)
         nxt == V1_Advance(row, col)
     IN  IF r.raised
         THEN /\ pc' = "crashed" /\ exit_code' = 1 /\ failure' = "decode"
              /\ UNCHANGED <<output_image, tiles_loaded, tiles_missing, col, row, cells,
                             canvas_writes>>
         ELSE /\ IF r.found
                 THEN /\ output_image' = ImagePaste(output_image, r.tile, off.x, off.y)
                      /\ canvas_writes' = canvas_writes + 1
                 ELSE UNCHANGED <<output_image, canvas_writes>>
              /\ tiles_loaded' = tiles_loaded + r.loaded
              /\ tiles_missing' = tiles_missing + r.missing
              /\ cells' = Append(cells, [col |-> col, row |-> row, name |-> <<row, col>>,
                                         x |-> off.x, y |-> off.y, fs |-> r.fs,
                                         msg |-> r.msg, loaded |-> r.loaded,
                                         missing |-> r.missing, pasted |-> r.found])
              /\ row' = nxt[1] /\ col' = nxt[2]
              /\ UNCHANGED <<pc, exit_code, failure>>
  /\ UNCHANGED <<variant, dir_exists, disk, tile_num, tiles_processed, output_file>>

V1_LoopEnd ==
  /\ variant = "v1" /\ pc = "loop" /\ V1_LoopDone(row)
  /\ pc' = "assembled"
  /\ UNCHANGED <<variant, dir_exists, disk, exit_code, failure, output_image, tile_num,
                 tiles_processed, tiles_loaded, tiles_missing, col, row, cells,
                 output_file, canvas_writes>>

\* output_image = output_image.resize((GAME_SIZE, GAME_SIZE), Image.LANCZOS)
V1_Upscale ==
  /\ variant = "v1" /\ pc = "assembled"
  /\ output_image' = ImageResize(output_image, GAME_SIZE, GAME_SIZE)
  /\ pc' = "upscaled"
  /\ UNCHANGED <<variant, dir_exists, disk, exit_code, failure, tile_num, tiles_processed,
                 tiles_loaded, tiles_missing, col, row, cells, output_file, canvas_writes>>

\* seeded fault: the save comes before the upscale
V1_ReadyToSave_BeforeUpscale == pc = "assembled"

\* the state in which output_image.save is called
V1_ReadyToSave == pc = "upscaled"

V1_Save ==
  /\ variant = "v1" /\ V1_ReadyToSave
  /\ \E written \in BOOLEAN :
       IF written
       THEN /\ output_file' = Append(output_file, output_image)
            /\ pc' = "done" /\ exit_code' = 0 /\ UNCHANGED failure
       ELSE /\ pc' = "crashed" /\ exit_code' = 1 /\ failure' = "write"
            /\ UNCHANGED output_file
  /\ UNCHANGED <<variant, dir_exists, disk, output_image, tile_num, tiles_processed,
                 tiles_loaded, tiles_missing, col, row, cells, canvas_writes>>

----------------------------------------------------------------------------
(* The specification *)

Init ==
  /\ variant \in {"original", "v1"}
  /\ dir_exists \in BOOLEAN
  /\ disk \in (IF dir_exists THEN Disks(variant) ELSE [{} -> Status])
  /\ pc = "main"
  /\ exit_code = -1
  /\ failure = "none"
  /\ output_image = NoImage
  /\ tile_num = 0
  /\ tiles_processed = 0
  /\ tiles_loaded = 0
  /\ tiles_missing = 0
  /\ col = 0 /\ row = 0
  /\ cells = <<>>
  /\ output_file = <<>>
  /\ canvas_writes = 0

Next ==
  \/ Orig_Main
  \/ Orig_Cell
  \/ Orig_LoopEnd
  \/ Orig_Save
  \/ V1_Main
  \/ V1_Cell
  \/ V1_LoopEnd
  \/ V1_Upscale
  \/ V1_Save

Spec == Init /\ [][Next]_vars

----------------------------------------------------------------------------
(* Vocabulary of the properties *)

GridRowCount == IF variant = "original" THEN GRID_SIZE ELSE GRID_ROWS
GridColCount == IF variant = "original" THEN GRID_SIZE ELSE GRID_COLS
TileSide     == IF variant = "original" THEN TILE_SIZE ELSE V1_TILE_SIZE

\* 0-based index of a loop value: the original loops from 0, v1 from 1
Index0(k) == IF variant = "original" THEN k ELSE k - 1

\* the loop values of all grid cells, as <<row, col>>
GridCells ==
  IF variant = "original"
  THEN {<<r, c>> : r \in 0..(GRID_SIZE - 1), c \in 0..(GRID_SIZE - 1)}
  ELSE {<<r, c>> : r \in 1..GRID_ROWS, c \in 1..GRID_COLS}

\* the canvas region of the grid cell with loop values (r, c)
Region(r, c) ==
  [x |-> Index0(c) * TileSide, y |-> Index0(r) * TileSide, w |-> TileSide, h |-> TileSide]

\* the rectangle a paste writes
PasteRect(p) == [x |-> p.x, y |-> p.y, w |-> p.tile.w, h |-> p.tile.h]

\* two rectangles share a pixel
Overlap(a, b) ==
  /\ a.x < b.x + b.w /\ b.x < a.x + a.w
  /\ a.y < b.y + b.h /\ b.y < a.y + a.h

\* rectangle a lies inside the image
Inside(a, img) == 0 <= a.x /\ a.x + a.w <= img.w /\ 0 <= a.y /\ a.y + a.h <= img.h

\* the region the run pasted (or would paste) the i-th visited cell at
CellRect(i) == [x |-> cells[i].x, y |-> cells[i].y, w |-> TileSide, h |-> TileSide]

RECURSIVE SumArea(_)
SumArea(n) == IF n = 0 THEN 0 ELSE CellRect(n).w * CellRect(n).h + SumArea(n - 1)

\* img shows the tile file `name`, as decoded or resampled
ShowsFile(img, name) ==
  \/ img.base.kind = "file" /\ img.base.name = name
  \/ img.base.kind = "lanczos" /\ img.base.of.base.kind = "file"
       /\ img.base.of.base.name = name

\* every pixel of rectangle a of the canvas is black
RegionBlack(a) ==
  /\ output_image.base.kind = "solid" /\ output_image.base.color = "black"
  /\ \A k \in 1..Len(output_image.pastes) :
       Overlap(PasteRect(output_image.pastes[k]), a) => IsBlack(output_image.pastes[k].tile)

\* rectangle a of the canvas holds exactly the tile of file `name`
RegionHolds(a, name) ==
  \E k \in 1..Len(output_image.pastes) :
    /\ PasteRect(output_image.pastes[k]) = a
    /\ ShowsFile(output_image.pastes[k].tile, name)
    /\ \A j \in (k + 1)..Len(output_image.pastes) :
         ~Overlap(PasteRect(output_image.pastes[j]), a)

Traversed == pc = "assembled"

----------------------------------------------------------------------------
(* C1 *)

\* C1: in both variants, when the traversal has ended, any two visited cells have
\* different offsets and disjoint tileSize x tileSize regions, each region is at
\* (0-based column * tileSize, 0-based row * tileSize) and inside the canvas, the
\* canvas is (tileSize*cols) x (tileSize*rows), and the regions, being disjoint and
\* inside, have the canvas's area in total: they cover every pixel.
C1_RegionsTileTheCanvas ==
  Traversed =>
    /\ output_image.w = TileSide * GridColCount
    /\ output_image.h = TileSide * GridRowCount
    /\ Len(cells) = GridRowCount * GridColCount
    /\ \A i \in 1..Len(cells) :
         /\ cells[i].x = Index0(cells[i].col) * TileSide
         /\ cells[i].y = Index0(cells[i].row) * TileSide
         /\ Inside(CellRect(i), output_image)
         /\ \A j \in (i + 1)..Len(cells) :
              /\ <<cells[i].x, cells[i].y>> # <<cells[j].x, cells[j].y>>
              /\ ~Overlap(CellRect(i), CellRect(j))
    /\ SumArea(Len(cells)) = output_image.w * output_image.h

C1_Witness ==
  /\ Traversed /\ variant = "original"
  /\ Len(cells) = GRID_SIZE * GRID_SIZE
  /\ cells[Len(cells)].x = (GRID_SIZE - 1) * TILE_SIZE
  /\ cells[Len(cells)].y = (GRID_SIZE - 1) * TILE_SIZE

----------------------------------------------------------------------------
(* C2 *)

\* C2: when the traversal has ended, every (row, col) of the grid occurs exactly
\* once among the visited cells, and nothing else was visited, in both variants.
C2_EachCellVisitedOnce ==
  Traversed =>
    /\ \A g \in GridCells :
         Cardinality({i \in 1..Len(cells) : <<cells[i].row, cells[i].col>> = g}) = 1
    /\ \A i \in 1..Len(cells) : <<cells[i].row, cells[i].col>> \in GridCells

C2_Witness ==
  /\ Traversed /\ variant = "v1" /\ Len(cells) = GRID_ROWS * GRID_COLS
  /\ <<cells[1].row, cells[1].col>> = <<1, 1>>
  /\ <<cells[2].row, cells[2].col>> = <<1, 2>>

----------------------------------------------------------------------------
(* C3 *)

\* C3: in the 18x18 variant, for every visited cell whose identifier is in
\* MISSING_TILES no os.path.exists and no Image.open is made for its tile, and the
\* image pasted at the cell's region is a solid black TILE_SIZE x TILE_SIZE tile,
\* whatever the tile directory holds under that name.
C3_MissingSetSkipsDisk ==
  variant = "original" =>
    \A i \in 1..Len(cells) :
      cells[i].name \in MISSING_TILES =>
        /\ cells[i].fs = {}
        /\ i <= Len(output_image.pastes)
        /\ PasteRect(output_image.pastes[i]) = Region(cells[i].row, cells[i].col)
        /\ IsBlack(output_image.pastes[i].tile)

\* a declared-missing tile whose file is on disk has been visited, and one whose
\* file is not a well-formed tile too
C3_Witness ==
  /\ variant = "original" /\ pc = "loop"
  /\ 76009 \in DOMAIN disk /\ disk[76009] = "corrupt"
  /\ PathExists(76027)
  /\ \E i \in 1..Len(cells) : cells[i].name = 76009
  /\ \E i \in 1..Len(cells) : cells[i].name = 76027

----------------------------------------------------------------------------
(* C4 *)

\* C4: a run ends in failure only because the tile directory is missing or the
\* final write failed; a tile file that fails to decode never ends it.
C4_PerTileFailureNeverAborts ==
  pc \in {"exited", "crashed"} => failure \in {"no_tile_dir", "write"}

----------------------------------------------------------------------------
(* C5 *)

\* C5: when the tile directory does not exist, the run is either not started or
\* has exited with a non-zero code, and no cell was visited, no tile was pasted,
\* no canvas exists and no output file was written.
C5_NoTileDirExitsFirst ==
  ~dir_exists =>
    /\ pc \in {"main", "exited"}
    /\ pc = "exited" => exit_code > 0
    /\ cells = <<>>
    /\ canvas_writes = 0
    /\ output_image = NoImage
    /\ output_file = <<>>

C5_Witness == ~dir_exists /\ pc = "exited" /\ exit_code = 1 /\ variant = "v1"

----------------------------------------------------------------------------
(* C6 *)

C6_AllCellsDone ==
  /\ Len(cells) = GridRowCount * GridColCount
  /\ \A g \in GridCells : \E i \in 1..Len(cells) : <<cells[i].row, cells[i].col>> = g

C6_Inv ==
  /\ (pc \in {"upscaled", "done"} \/ failure = "write" \/ output_file # <<>>)
       => C6_AllCellsDone
  /\ Len(output_file) <= 1
  /\ pc = "done" => Len(output_file) = 1 /\ exit_code = 0
  /\ (variant = "v1" /\ output_file # <<>>) =>
       /\ output_file[1].base.kind = "lanczos"
       /\ <<output_file[1].w, output_file[1].h>> = <<GAME_SIZE, GAME_SIZE>>
       /\ Len(output_file[1].base.of.pastes) = canvas_writes
  /\ (variant = "original" /\ output_file # <<>>) =>
       /\ output_file[1].base.kind = "solid"
       /\ Len(output_file[1].pastes) = canvas_writes

C6_Step ==
  \* no paste once the upscale or the save has started
  /\ (pc \in {"upscaled", "done"} \/ failure = "write") =>
       /\ canvas_writes' = canvas_writes
       /\ (pc = "upscaled" => output_image' = output_image)
  \* a write of the output file, or its failure, follows the upscale where there is one
  /\ (output_file' # output_file \/ (failure' = "write" /\ failure # "write")) =>
       pc = (IF variant = "v1" THEN "upscaled" ELSE "assembled")
  \* the upscale comes after the traversal
  /\ (pc' = "upscaled" /\ pc # "upscaled") => pc = "assembled" /\ C6_AllCellsDone

\* C6: the upscale and the save happen only after every grid cell has been
\* visited, the upscale before the save; a successful run writes the output file
\* exactly once (in v1: the upscaled image), and once the upscale or the save has
\* started nothing is pasted on the canvas.
C6_UpscaleAndSaveAfterAllCells == []C6_Inv /\ [][C6_Step]_vars

C6_Witness ==
  /\ variant = "v1" /\ pc = "done" /\ Len(output_file) = 1
  /\ canvas_writes = GRID_ROWS * GRID_COLS - MaxFaults

----------------------------------------------------------------------------
(* C7 *)

\* the tile identifiers the run used in the cells of 0-based column c
C7_ColumnTiles(c) == {cells[i].name : i \in {k \in 1..Len(cells) : cells[k].col = c}}

\* C7: in the 18x18 variant the identifier used at 0-based (col, row) is
\* START_TILE + col*GRID_SIZE + row; when the traversal has ended, column 1 holds
\* 75879..75896, column 18 holds 76185..76202, the last identifier is END_TILE,
\* and 76009 and 76027 were both used in row 5 (1-based).
C7_ColumnMajorTileIds ==
  variant = "original" =>
    /\ \A i \in 1..Len(cells) :
         cells[i].name = START_TILE + cells[i].col * GRID_SIZE + cells[i].row
    /\ Traversed =>
         /\ C7_ColumnTiles(0) = 75879..75896
         /\ C7_ColumnTiles(GRID_SIZE - 1) = 76185..76202
         /\ cells[Len(cells)].name = END_TILE
         /\ tile_num = END_TILE + 1
         /\ \A m \in MISSING_TILES :
              \E i \in 1..Len(cells) : cells[i].name = m /\ cells[i].row + 1 = 5

C7_Witness ==
  /\ variant = "original" /\ Traversed
  /\ cells[Len(cells)].name = 76202
  /\ \E i \in 1..Len(cells) : cells[i].name = 76027 /\ cells[i].msg = "known_missing"

----------------------------------------------------------------------------
(* C8 *)

\* C8: in both variants, when the traversal has ended and nothing is upscaled yet,
\* the canvas region of every cell whose tile was missing (declared, or absent
\* from disk) is black in every pixel, and the region of every cell whose tile
\* was loaded holds exactly that tile, at tile size.
C8_GapsBlackTilesInPlace ==
  Traversed =>
    \A i \in 1..Len(cells) :
      IF cells[i].msg \in {"known_missing", "not_found"}
      THEN RegionBlack(Region(cells[i].row, cells[i].col))
      ELSE RegionHolds(Region(cells[i].row, cells[i].col), cells[i].name)

\* a finished 3x3 traversal with an unpasted cell in the middle and a resized tile
C8_Witness ==
  /\ Traversed /\ variant = "v1"
  /\ <<2, 2>> \in DOMAIN disk /\ disk[<<2, 2>>] = "absent"
  /\ <<2, 3>> \in DOMAIN disk /\ disk[<<2, 3>>] = "wrongsize"
  /\ canvas_writes = GRID_ROWS * GRID_COLS - 1

----------------------------------------------------------------------------
(* C9 *)

\* the number of visited cells whose diagnostic line is one of kinds
C9_Count(kinds) == Cardinality({i \in 1..Len(cells) : cells[i].msg \in kinds})

\* the counter the i-th visited cell incremented
C9_CounterOf(i) == IF cells[i].loaded = 1 THEN "loaded" ELSE "missing"

\* C9 as claimed: the summary counts loaded, known-missing, unexpectedly-missing
\* and resized tiles separately: cells of two different kinds never increment the
\* same counter.
C9_SeparateCounts ==
  Traversed =>
    \A i, j \in 1..Len(cells) :
      cells[i].msg # cells[j].msg => C9_CounterOf(i) # C9_CounterOf(j)

\* C9 as amended: the summary carries two counts. The missing count is the number
\* of declared-missing cells plus the number of cells whose file is absent; the
\* loaded count (tiles_processed, in v1 tiles_loaded) is the number of cells whose
\* file was opened, the resized ones included. The four kinds differ only in the
\* per-tile diagnostic line.
C9_TwoCounts ==
  Traversed =>
    /\ tiles_missing = C9_Count({"known_missing"}) + C9_Count({"not_found"})
    /\ (IF variant = "original" THEN tiles_processed ELSE tiles_loaded)
         = C9_Count({"loaded"}) + C9_Count({"resized"})
    /\ \A i \in 1..Len(cells) :
         cells[i].msg =
           IF variant = "original" /\ cells[i].name \in MISSING_TILES THEN "known_missing"
           ELSE IF FileStatus(cells[i].name) = "absent" THEN "not_found"
           ELSE IF FileStatus(cells[i].name) = "wrongsize" THEN "resized"
           ELSE "loaded"

C9_Witness ==
  /\ Traversed /\ variant = "original"
  /\ C9_Count({"not_found"}) = 1 /\ C9_Count({"resized"}) = 1
  /\ C9_Count({"known_missing"}) = 2
  /\ tiles_missing = 3

----------------------------------------------------------------------------
(* C10 *)

====
